---- MODULE Spec2Model ----
(***************************************************************************)
(* crafty_novels: the Stendhal tokenizer (format/stendhal) and the HTML    *)
(* exporter (format/html), with the Minecraft format-code and colour       *)
(* tables they use (syntax/minecraft).                                     *)
(*                                                                         *)
(* A character is a one-character string, a line is a sequence of          *)
(* characters, a document is a sequence of lines.  The output sink is the  *)
(* sequence of the strings written to it, one entry per write call (a      *)
(* write! call is one entry holding the formatted string); Flatten gives   *)
(* the byte stream.                                                        *)
(***************************************************************************)
EXTENDS Integers, Sequences, FiniteSets, TLC

VARIABLES
    input,               \* the lines of the input text (it is never modified)
    lines_read,          \* number of lines the line iterator has yielded
    metadata,            \* Vec<Metadata> / TokenList.metadata
    tokens,              \* Vec<Token> / TokenList.tokens
    err,                 \* the Error returned, NoError while none
    pc,                  \* position in tokenize_string / export_token_vector_to_writer
    idx,                 \* number of tokens the export loop has handled
    format_token_stack,  \* Vec<Format>, bottom first
    output,              \* what has been written to the Utf8Writer
    sink_script,         \* what the sink answers to its successive calls
    sink_calls,          \* the calls the sink has received, with its answers
    string,              \* the argument of FormatCode::from_str
    format_code          \* the FormatCode obtained from it

vars == <<input, lines_read, metadata, tokens, err, pc, idx, format_token_stack, output,
          sink_script, sink_calls, string, format_code>>

----------------------------------------------------------------------------
(* Bounds of the model *)

\* longest line body (after an optional "#- ") given to parse::line alone
MaxLineLen == 4
\* longest hand-built token sequence given to the exporter
MaxTokens == 3
\* most body lines of a whole document
MaxLines == 2
\* longest body line of a whole document
MaxDocLineLen == 2
\* longest text of a Text token in the texts of SpecText
MaxTextLen == 5
\* most lines of a text in the texts of SpecFrontmatter
MaxHeaderLines == 4
\* longest argument of FormatCode::from_str
MaxCodeStringLen == 3
\* most calls of the sink that the script of SpecSink answers
MaxSinkCalls == 3
\* most body lines of a document in the documents of SpecFair
MaxFairLines == 2

----------------------------------------------------------------------------
(* syntax/minecraft: Color, Format, FormatCode *)

Color ==
    {"Black", "DarkBlue", "DarkGreen", "DarkAqua", "DarkRed", "DarkPurple",
     "Gold", "Gray", "DarkGray", "Blue", "Green", "Aqua", "Red",
     "LightPurple", "Yellow", "White"}

Format ==
    Color \cup {"Obfuscated", "Bold", "Strikethrough", "Underline", "Italic", "Reset"}

NoError == <<"NoError">>

\* TryFrom<char> for FormatCode: the Format a code character resolves to.
FormatCodeTryFrom(code) ==
    CASE code = "0" -> [ok |-> TRUE, format |-> "Black"]
      [] code = "1" -> [ok |-> TRUE, format |-> "DarkBlue"]
      [] code = "2" -> [ok |-> TRUE, format |-> "DarkGreen"]
      [] code = "3" -> [ok |-> TRUE, format |-> "DarkAqua"]
      [] code = "4" -> [ok |-> TRUE, format |-> "DarkRed"]
      [] code = "5" -> [ok |-> TRUE, format |-> "DarkPurple"]
      [] code = "6" -> [ok |-> TRUE, format |-> "Gold"]
      [] code = "7" -> [ok |-> TRUE, format |-> "Gray"]
      [] code = "8" -> [ok |-> TRUE, format |-> "DarkGray"]
      [] code = "9" -> [ok |-> TRUE, format |-> "Blue"]
      [] code = "a" -> [ok |-> TRUE, format |-> "Green"]
      [] code = "b" -> [ok |-> TRUE, format |-> "Aqua"]
      [] code = "c" -> [ok |-> TRUE, format |-> "Red"]
      [] code = "d" -> [ok |-> TRUE, format |-> "LightPurple"]
      [] code = "e" -> [ok |-> TRUE, format |-> "Yellow"]
      [] code = "f" -> [ok |-> TRUE, format |-> "White"]
      [] code = "k" -> [ok |-> TRUE, format |-> "Obfuscated"]
      [] code = "l" -> [ok |-> TRUE, format |-> "Bold"]
      [] code = "m" -> [ok |-> TRUE, format |-> "Strikethrough"]
      [] code = "n" -> [ok |-> TRUE, format |-> "Underline"]
      [] code = "o" -> [ok |-> TRUE, format |-> "Italic"]
      [] code = "r" -> [ok |-> TRUE, format |-> "Reset"]
      [] OTHER -> [ok |-> FALSE, error |-> <<"NoSuchFormatCode", code>>]

\* From<Color> for ColorValue: the foreground (red, green, blue) of a colour.
ColorValueFg(color) ==
    CASE color = "Black"       -> <<0,   0,   0>>
      [] color = "DarkBlue"    -> <<0,   0,   170>>
      [] color = "DarkGreen"   -> <<0,   170, 0>>
      [] color = "DarkAqua"    -> <<0,   170, 170>>
      [] color = "DarkRed"     -> <<170, 0,   0>>
      [] color = "DarkPurple"  -> <<170, 0,   170>>
      [] color = "Gold"        -> <<255, 170, 0>>
      [] color = "Gray"        -> <<170, 170, 170>>
      [] color = "DarkGray"    -> <<85,  85,  85>>
      [] color = "Blue"        -> <<85,  85,  255>>
      [] color = "Green"       -> <<85,  255, 85>>
      [] color = "Aqua"        -> <<85,  255, 255>>
      [] color = "Red"         -> <<255, 85,  85>>
      [] color = "LightPurple" -> <<255, 85,  255>>
      [] color = "Yellow"      -> <<255, 255, 85>>
      [] color = "White"       -> <<255, 255, 255>>

HexDigit(d) ==
    <<"0", "1", "2", "3", "4", "5", "6", "7", "8", "9",
      "A", "B", "C", "D", "E", "F">>[d + 1]

\* core::fmt::UpperHex for u8 with the plain "{:X}" format: no width, no padding.
RECURSIVE U8UpperHex(_)
U8UpperHex(n) ==
    IF n < 16 THEN HexDigit(n)
    ELSE U8UpperHex(n \div 16) \o HexDigit(n % 16)

\* UpperHex for Rgb: write!(f, "{:X}{:X}{:X}", red, green, blue).
RgbUpperHex(rgb) ==
    U8UpperHex(rgb[1]) \o U8UpperHex(rgb[2]) \o U8UpperHex(rgb[3])

\* Display for Rgb: write!(f, "#{self:X}").
RgbDisplay(rgb) == "#" \o RgbUpperHex(rgb)

\* Display for Color: Display of ColorValue::from(color), which displays fg().
ColorDisplay(color) == RgbDisplay(ColorValueFg(color))

\* A lookup that falls back to Reset for a character outside the table.
FormatTryFromCharDefaultsToReset(value) ==
    IF FormatCodeTryFrom(value).ok
    THEN FormatCodeTryFrom(value)
    ELSE [ok |-> TRUE, format |-> "Reset"]

\* TryFrom<char> for Format: the table lookup, through FormatCode::new.
FormatTryFromChar(value) == FormatCodeTryFrom(value)

\* the variable format_code while there is no FormatCode
NoFormatCode == [code |-> "", format |-> ""]

\* FormatCode::new(code): the FormatCode { code, format } of a code character.
FormatCodeNew(code) ==
    LET r == FormatCodeTryFrom(code)
    IN  IF r.ok
        THEN [ok |-> TRUE, format_code |-> [code |-> code, format |-> r.format]]
        ELSE r

\* From<Color> for FormatCode with the codes of Green and Aqua exchanged.
FormatCodeFromColorSwapped(color) ==
    [code |-> CASE color = "Green" -> "b"
                [] color = "Aqua" -> "a"
                [] OTHER -> "0",
     format |-> color]

\* From<Color> for FormatCode
FormatCodeFromColor(color) ==
    [code |-> CASE color = "Black" -> "0"
                [] color = "DarkBlue" -> "1"
                [] color = "DarkGreen" -> "2"
                [] color = "DarkAqua" -> "3"
                [] color = "DarkRed" -> "4"
                [] color = "DarkPurple" -> "5"
                [] color = "Gold" -> "6"
                [] color = "Gray" -> "7"
                [] color = "DarkGray" -> "8"
                [] color = "Blue" -> "9"
                [] color = "Green" -> "a"
                [] color = "Aqua" -> "b"
                [] color = "Red" -> "c"
                [] color = "LightPurple" -> "d"
                [] color = "Yellow" -> "e"
                [] color = "White" -> "f",
     format |-> color]

\* From<Format> for FormatCode
FormatCodeFromFormat(format) ==
    IF format \in Color THEN FormatCodeFromColor(format)
    ELSE [code |-> CASE format = "Obfuscated" -> "k"
                     [] format = "Bold" -> "l"
                     [] format = "Strikethrough" -> "m"
                     [] format = "Underline" -> "n"
                     [] format = "Italic" -> "o"
                     [] format = "Reset" -> "r",
          format |-> format]

----------------------------------------------------------------------------
(* syntax: Token, Metadata *)

Text(s) == [type |-> "Text", text |-> s]
TokenFormat(f) == [type |-> "Format", format |-> f]
Space == [type |-> "Space"]
LineBreak == [type |-> "LineBreak"]
ParagraphBreak == [type |-> "ParagraphBreak"]
ThematicBreak == [type |-> "ThematicBreak"]

Title(s) == [type |-> "Title", text |-> s]
Author(s) == [type |-> "Author", text |-> s]

\* the characters of a string literal, one per element
Sentinel == "§"
PagePrefix == <<"#", "-", " ">>
TitlePrefix == <<"t", "i", "t", "l", "e", ":", " ">>
AuthorPrefix == <<"a", "u", "t", "h", "o", "r", ":", " ">>
PagesPrefix == <<"p", "a", "g", "e", "s", ":">>

\* str::strip_prefix
StripPrefix(s, prefix) ==
    IF Len(s) >= Len(prefix) /\ SubSeq(s, 1, Len(prefix)) = prefix
    THEN [some |-> TRUE, rest |-> SubSeq(s, Len(prefix) + 1, Len(s))]
    ELSE [some |-> FALSE, rest |-> s]

----------------------------------------------------------------------------
(* format/stendhal/parse.rs *)

\* flush losing the word.
flush_drops_word(out, word_stack) == out

\* flush pushing a Text token for an empty word stack too.
flush_always(out, word_stack) == Append(out, Text(word_stack))

\* flush: push the word stack as a Text token unless it is empty (the
\* conversion drains it, so the caller's word stack is empty afterwards).
flush(out, word_stack) ==
    IF word_stack # <<>> THEN Append(out, Text(word_stack)) ELSE out

\* start_of_page looking for "#-" only, without the space.
start_of_page_short_prefix(out, l) ==
    LET stripped == StripPrefix(l, <<"#", "-">>)
    IN  IF stripped.some
        THEN [output |-> Append(out, ThematicBreak), line |-> stripped.rest]
        ELSE [output |-> out, line |-> l]

\* start_of_page: push ThematicBreak and strip "#- " when the line starts with it.
start_of_page(out, l) ==
    LET stripped == StripPrefix(l, PagePrefix)
    IN  IF stripped.some
        THEN [output |-> Append(out, ThematicBreak), line |-> stripped.rest]
        ELSE [output |-> out, line |-> l]

\* trailing_formatting set on every escape, Reset included.
trailing_after_any(format) == TRUE

\* trailing_formatting = !matches!(code, Token::Format(Format::Reset))
trailing_after(format) == format # "Reset"

\* One iteration of `while let Some(char) = iter.next()`, on the scanner state
\* s = [output, word_stack, trailing_formatting, iter, error].
line_iteration(s) ==
    LET char == Head(s.iter)
        rest == Tail(s.iter)
        flushed == flush(s.output, s.word_stack)
    IN  CASE char = " " ->
               [s EXCEPT !.output = Append(flushed, Space),
                         !.word_stack = <<>>,
                         !.iter = rest]
          [] char = Sentinel ->
               IF rest = <<>>
               THEN [s EXCEPT !.output = flushed, !.word_stack = <<>>,
                              !.iter = rest,
                              !.error = <<"MissingFormatCode">>]
               ELSE LET code == FormatTryFromChar(Head(rest))
                    IN  IF ~code.ok
                        THEN [s EXCEPT !.output = flushed, !.word_stack = <<>>,
                                       !.iter = Tail(rest),
                                       !.error = code.error]
                        ELSE [s EXCEPT !.output = Append(flushed, TokenFormat(code.format)),
                                       !.word_stack = <<>>,
                                       !.trailing_formatting = trailing_after(code.format),
                                       !.iter = Tail(rest)]
          [] OTHER ->
               [s EXCEPT !.word_stack = Append(s.word_stack, char),
                         !.iter = rest]

\* The loop: iterations until the line is exhausted or an error is returned
\* (x is the scanner state after one iteration, computed once).
RECURSIVE line_loop(_)
line_loop(s) ==
    IF s.error # NoError \/ s.iter = <<>> THEN s
    ELSE CHOOSE r \in {line_loop(x) : x \in {line_iteration(s)}} : TRUE

\* line_end without the synthetic Reset.
line_end_no_reset(s) ==
    Append(flush(s.output, s.word_stack), LineBreak)

\* line_end without the closing LineBreak.
line_end_no_break(s) ==
    LET flushed == flush(s.output, s.word_stack)
    IN  IF s.trailing_formatting
        THEN Append(flushed, TokenFormat("Reset"))
        ELSE flushed

\* The statements of `line` after the loop: final flush, synthetic Reset, LineBreak.
line_end(s) ==
    LET flushed == flush(s.output, s.word_stack)
        reset == IF s.trailing_formatting
                 THEN Append(flushed, TokenFormat("Reset"))
                 ELSE flushed
    IN  Append(reset, LineBreak)

\* parse::line testing for the empty line after the page prefix is stripped.
line_empty_after_strip(out, l) ==
    LET page == start_of_page(out, l)
        s == line_loop([output |-> page.output,
                        word_stack |-> <<>>,
                        trailing_formatting |-> FALSE,
                        iter |-> page.line,
                        error |-> NoError])
    IN  IF page.line = <<>>
        THEN [error |-> NoError, output |-> Append(page.output, ParagraphBreak)]
        ELSE IF s.error # NoError
        THEN [error |-> s.error, output |-> s.output]
        ELSE [error |-> NoError, output |-> line_end(s)]

\* parse::line dropping a line it cannot parse, without an error.
line_skips_bad_line(out, l) ==
    IF l = <<>>
    THEN [error |-> NoError, output |-> Append(out, ParagraphBreak)]
    ELSE LET page == start_of_page(out, l)
             s == line_loop([output |-> page.output,
                             word_stack |-> <<>>,
                             trailing_formatting |-> FALSE,
                             iter |-> page.line,
                             error |-> NoError])
         IN  IF s.error # NoError
             THEN [error |-> NoError, output |-> out]
             ELSE [error |-> NoError, output |-> line_end(s)]

\* parse::line(output, line): the error returned and the output vector as left.
line(out, l) ==
    IF l = <<>>
    THEN [error |-> NoError, output |-> Append(out, ParagraphBreak)]
    ELSE LET page == start_of_page(out, l)
             s == line_loop([output |-> page.output,
                             word_stack |-> <<>>,
                             trailing_formatting |-> FALSE,
                             iter |-> page.line,
                             error |-> NoError])
         IN  IF s.error # NoError
             THEN [error |-> s.error, output |-> s.output]
             ELSE [error |-> NoError, output |-> line_end(s)]

\* get_field returning the whole line when it has the prefix.
get_field_keeps_prefix(iter, field) ==
    IF iter = <<>>
    THEN [error |-> <<"UnexpectedEndOfIter">>, value |-> <<>>, iter |-> iter]
    ELSE IF StripPrefix(Head(iter), field).some
    THEN [error |-> NoError, value |-> Head(iter), iter |-> Tail(iter)]
    ELSE [error |-> <<"IncompleteOrMissingFrontmatter">>,
          value |-> <<>>, iter |-> Tail(iter)]

\* get_field reporting an exhausted iterator as a missing field.
get_field_end_as_missing(iter, field) ==
    IF iter = <<>>
    THEN [error |-> <<"IncompleteOrMissingFrontmatter">>, value |-> <<>>, iter |-> iter]
    ELSE LET stripped == StripPrefix(Head(iter), field)
         IN  IF stripped.some
             THEN [error |-> NoError, value |-> stripped.rest, iter |-> Tail(iter)]
             ELSE [error |-> <<"IncompleteOrMissingFrontmatter">>,
                   value |-> <<>>, iter |-> Tail(iter)]

\* get_field: the next line with `field` stripped, or an error; the iterator
\* has advanced past the line when there was one.
get_field(iter, field) ==
    IF iter = <<>>
    THEN [error |-> <<"UnexpectedEndOfIter">>, value |-> <<>>, iter |-> iter]
    ELSE LET stripped == StripPrefix(Head(iter), field)
         IN  IF stripped.some
             THEN [error |-> NoError, value |-> stripped.rest, iter |-> Tail(iter)]
             ELSE [error |-> <<"IncompleteOrMissingFrontmatter">>,
                   value |-> <<>>, iter |-> Tail(iter)]

\* parse::frontmatter(iter): the error or the metadata, and the iterator as left.
frontmatter(iter) ==
    LET title == get_field(iter, TitlePrefix)
        author == get_field(title.iter, AuthorPrefix)
        pages == get_field(author.iter, PagesPrefix)
    IN  IF title.error # NoError
        THEN [error |-> title.error, metadata |-> <<>>, iter |-> title.iter]
        ELSE IF author.error # NoError
        THEN [error |-> author.error, metadata |-> <<>>, iter |-> author.iter]
        ELSE IF pages.error # NoError
        THEN [error |-> pages.error, metadata |-> <<>>, iter |-> pages.iter]
        ELSE [error |-> NoError,
              metadata |-> <<Title(title.value), Author(author.value)>>,
              iter |-> pages.iter]

----------------------------------------------------------------------------
(* format/html/syntax.rs: the entity table, for the characters of the model *)

\* TryFrom<&char> for HtmlEntity, then From<&HtmlEntity> for HtmlEntityValue:
\* the entity name of a literal character, "" when it has none.
HtmlEntityName(literal) ==
    CASE literal = "\"" -> "quot"
      [] literal = "'"  -> "apos"
      [] literal = "&"  -> "amp"
      [] literal = "<"  -> "lt"
      [] literal = ">"  -> "gt"
      [] literal = Sentinel -> "sect"
      [] OTHER -> ""

\* Display for HtmlEntityValue: write!(f, "&{};", self.name).
HtmlEntityDisplay(name) == "&" \o name \o ";"

----------------------------------------------------------------------------
(* format/html/token_handling.rs *)

\* The concatenation of a sequence of strings.
RECURSIVE Flatten(_)
Flatten(strs) ==
    IF strs = <<>> THEN "" ELSE Head(strs) \o Flatten(Tail(strs))

\* insert_string_as_html passing an already written "&amp;" through.
RECURSIVE insert_string_as_html_lookahead(_, _)
insert_string_as_html_lookahead(out, chars) ==
    IF chars = <<>> THEN out
    ELSE LET char == Head(chars)
             escaped == Len(chars) >= 5 /\ SubSeq(chars, 1, 5) = <<"&", "a", "m", "p", ";">>
             written == IF HtmlEntityName(char) # "" /\ ~escaped
                        THEN HtmlEntityDisplay(HtmlEntityName(char))
                        ELSE char
         IN  insert_string_as_html_lookahead(Append(out, written), Tail(chars))

\* insert_string_as_html: one write per character, the entity when it has one.
RECURSIVE insert_string_as_html(_, _)
insert_string_as_html(out, chars) ==
    IF chars = <<>> THEN out
    ELSE LET char == Head(chars)
             written == IF HtmlEntityName(char) # ""
                        THEN HtmlEntityDisplay(HtmlEntityName(char))
                        ELSE char
         IN  insert_string_as_html(Append(out, written), Tail(chars))

\* open_html!: the opening tag written for a format other than Reset.
open_html(format_token) ==
    CASE format_token \in Color ->
               "<span style='color:" \o ColorDisplay(format_token) \o "'>"
      [] format_token = "Obfuscated" -> "<code>"
      [] format_token = "Bold" -> "<b>"
      [] format_token = "Strikethrough" -> "<s>"
      [] format_token = "Underline" -> "<u>"
      [] format_token = "Italic" -> "<i>"

\* close_html!: the closing tag written for a popped format other than Reset.
close_html(format_token) ==
    CASE format_token \in Color -> "</span>"
      [] format_token = "Obfuscated" -> "</code>"
      [] format_token = "Bold" -> "</b>"
      [] format_token = "Strikethrough" -> "</s>"
      [] format_token = "Underline" -> "</u>"
      [] format_token = "Italic" -> "</i>"

\* close_formatting_tags closing the oldest entry first.
close_formatting_tags_fifo(out, stack) ==
    [output |-> out \o [i \in 1..Len(stack) |-> close_html(stack[i])],
     format_token_stack |-> <<>>, error |-> NoError]

\* close_formatting_tags with `if let` for `while let`: one pop only.
close_formatting_tags_once(out, stack) ==
    IF stack = <<>>
    THEN [output |-> out, format_token_stack |-> stack, error |-> NoError]
    ELSE [output |-> Append(out, close_html(stack[Len(stack)])),
          format_token_stack |-> SubSeq(stack, 1, Len(stack) - 1),
          error |-> NoError]

\* close_formatting_tags: `while let Some(format_token) = stack.pop()`.
RECURSIVE close_formatting_tags(_, _)
close_formatting_tags(out, stack) ==
    IF stack = <<>>
    THEN [output |-> out, format_token_stack |-> stack, error |-> NoError]
    ELSE LET format_token == stack[Len(stack)]
             popped == SubSeq(stack, 1, Len(stack) - 1)
         IN  IF format_token = "Reset"
             THEN [output |-> out, format_token_stack |-> popped,
                   error |-> <<"UnexpectedToken", TokenFormat("Reset")>>]
             ELSE close_formatting_tags(Append(out, close_html(format_token)), popped)

\* handle_format pushing every format, Reset too, before it closes.
handle_format_pushes_reset(out, stack, format_token) ==
    IF format_token = "Reset"
    THEN close_formatting_tags(out, Append(stack, format_token))
    ELSE [output |-> Append(out, open_html(format_token)),
          format_token_stack |-> Append(stack, format_token),
          error |-> NoError]

\* handle_format leaving the stack alone when the format is already open.
handle_format_no_duplicates(out, stack, format_token) ==
    IF format_token = "Reset"
    THEN close_formatting_tags(out, stack)
    ELSE [output |-> Append(out, open_html(format_token)),
          format_token_stack |->
              IF \E i \in 1..Len(stack) : stack[i] = format_token
              THEN stack ELSE Append(stack, format_token),
          error |-> NoError]

\* handle_format: push and open, or close everything on Reset.
handle_format(out, stack, format_token) ==
    IF format_token = "Reset"
    THEN close_formatting_tags(out, stack)
    ELSE [output |-> Append(out, open_html(format_token)),
          format_token_stack |-> Append(stack, format_token),
          error |-> NoError]

\* handle_token writing a space after a space as "&nbsp;".
handle_token_nbsp(out, stack, token) ==
    CASE token.type = "Text" ->
               [output |-> insert_string_as_html(out, token.text),
                format_token_stack |-> stack, error |-> NoError]
      [] token.type = "Format" -> handle_format(out, stack, token.format)
      [] token.type = "Space" ->
               [output |-> Append(out, IF out[Len(out)] = " " THEN "&nbsp;" ELSE " "),
                format_token_stack |-> stack, error |-> NoError]
      [] token.type \in {"LineBreak", "ParagraphBreak"} ->
               [output |-> Append(out, "<br />"),
                format_token_stack |-> stack, error |-> NoError]
      [] token.type = "ThematicBreak" ->
               [output |-> Append(out, "<hr />"),
                format_token_stack |-> stack, error |-> NoError]

\* handle_token closing the open styles at a LineBreak.
handle_token_break_closes(out, stack, token) ==
    CASE token.type = "Text" ->
               [output |-> insert_string_as_html(out, token.text),
                format_token_stack |-> stack, error |-> NoError]
      [] token.type = "Format" -> handle_format(out, stack, token.format)
      [] token.type = "Space" ->
               [output |-> Append(out, " "),
                format_token_stack |-> stack, error |-> NoError]
      [] token.type = "LineBreak" ->
               LET closed == close_formatting_tags(out, stack)
               IN  [closed EXCEPT !.output = Append(closed.output, "<br />")]
      [] token.type = "ParagraphBreak" ->
               [output |-> Append(out, "<br />"),
                format_token_stack |-> stack, error |-> NoError]
      [] token.type = "ThematicBreak" ->
               [output |-> Append(out, "<hr />"),
                format_token_stack |-> stack, error |-> NoError]

\* handle_token
handle_token(out, stack, token) ==
    CASE token.type = "Text" ->
               [output |-> insert_string_as_html(out, token.text),
                format_token_stack |-> stack, error |-> NoError]
      [] token.type = "Format" -> handle_format(out, stack, token.format)
      [] token.type = "Space" ->
               [output |-> Append(out, " "),
                format_token_stack |-> stack, error |-> NoError]
      [] token.type = "LineBreak" ->
               [output |-> Append(out, "<br />"),
                format_token_stack |-> stack, error |-> NoError]
      [] token.type = "ParagraphBreak" ->
               [output |-> Append(out, "<br />"),
                format_token_stack |-> stack, error |-> NoError]
      [] token.type = "ThematicBreak" ->
               [output |-> Append(out, "<hr />"),
                format_token_stack |-> stack, error |-> NoError]

DocumentHead ==
    "<!DOCTYPE html><html lang=\"en\" dir=\"ltr\"><head><meta charset=\"utf-8\" />"
ViewportAndHeadEnd ==
    "<meta name=\"viewport\" content=\"width=device-width, initial-scale=1.0\" /></head>"
ArticleOpen == "<body><article style=white-space:break-spaces>"
ArticleClose == "</article></body></html>"

\* The write of one Metadata entry in start_document (the text is written raw).
metadata_html(data) ==
    IF data.type = "Title"
    THEN "<title>" \o Flatten(data.text) \o "</title>"
    ELSE "<meta name=\"author\" content=\"" \o Flatten(data.text) \o "\" />"

\* start_document writing the titles before the authors.
start_document_title_first(out, meta) ==
    LET IsTitle(data) == data.type = "Title"
        IsAuthor(data) == data.type = "Author"
        sorted == SelectSeq(meta, IsTitle) \o SelectSeq(meta, IsAuthor)
    IN  Append(out \o <<DocumentHead>>
                   \o [i \in 1..Len(sorted) |-> metadata_html(sorted[i])],
               ViewportAndHeadEnd)

\* start_document writing the metadata after the viewport element.
start_document_metadata_last(out, meta) ==
    Append(out, DocumentHead) \o <<ViewportAndHeadEnd>>
        \o [i \in 1..Len(meta) |-> metadata_html(meta[i])]

\* start_document
start_document(out, meta) ==
    Append(out \o <<DocumentHead>> \o [i \in 1..Len(meta) |-> metadata_html(meta[i])],
           ViewportAndHeadEnd)

----------------------------------------------------------------------------
(* syntax/minecraft/format_code: FormatCode::from_str and FormatCode::from   *)

\* FromStr for FormatCode
from_str(s) ==
    IF s = <<>> \/ s[1] # Sentinel \/ Len(s) > 2
    THEN [ok |-> FALSE, error |-> <<"InvalidFormatCodeString", s>>]
    ELSE IF Len(s) < 2
    THEN [ok |-> FALSE, error |-> <<"MissingFormatCode">>]
    ELSE FormatCodeNew(s[2])

\* FormatCode::from_str(string)
FromStr ==
    /\ pc = "from_str"
    /\ LET r == from_str(string)
       IN  IF r.ok
           THEN /\ format_code' = r.format_code
                /\ pc' = "format_code"
                /\ UNCHANGED err
           ELSE /\ err' = r.error
                /\ pc' = "error"
                /\ UNCHANGED format_code
    /\ UNCHANGED <<input, lines_read, metadata, tokens, idx, format_token_stack, output,
                   sink_script, sink_calls, string>>

\* FormatCode::from(format_code.format()): back from the Format to its code
FromFormat ==
    /\ pc = "format_code"
    /\ format_code' = FormatCodeFromFormat(format_code.format)
    /\ pc' = "from_format"
    /\ UNCHANGED <<input, lines_read, metadata, tokens, err, idx, format_token_stack,
                   output, sink_script, sink_calls, string>>

----------------------------------------------------------------------------
(* format/stendhal/mod.rs: Stendhal::tokenize_string, one step per call of   *)
(* parse::frontmatter and parse::line                                       *)

\* what the iterator `input` has yet to yield
Remaining == SubSeq(input, lines_read + 1, Len(input))

\* let metadata = parse::frontmatter(&mut input)?;
Frontmatter ==
    /\ pc = "frontmatter"
    /\ LET r == frontmatter(Remaining)
       IN  /\ lines_read' = Len(input) - Len(r.iter)
           /\ metadata' = r.metadata
           /\ err' = r.error
           /\ pc' = IF r.error # NoError THEN "error" ELSE "lines"
    /\ UNCHANGED <<string, format_code, sink_script, sink_calls, input, tokens, idx, format_token_stack, output>>

\* for line in input { parse::line(&mut tokens, line)?; }
\* On an error the function returns it and its locals are dropped.
ParseLine ==
    /\ pc = "lines"
    /\ Remaining # <<>>
    /\ LET r == line(tokens, Head(Remaining))
       IN  IF r.error # NoError
           THEN /\ err' = r.error
                /\ pc' = "error"
                /\ tokens' = <<>>
                /\ metadata' = <<>>
           ELSE /\ tokens' = r.output
                /\ UNCHANGED <<err, pc, metadata>>
    /\ lines_read' = lines_read + 1
    /\ UNCHANGED <<string, format_code, sink_script, sink_calls, input, idx, format_token_stack, output>>

\* Ok(TokenList::new_from_boxed(metadata, tokens.into())): the token list is
\* handed to the exporter.
TokenizeDone ==
    /\ pc = "lines"
    /\ Remaining = <<>>
    /\ pc' = "export"
    /\ UNCHANGED <<string, format_code, sink_script, sink_calls, input, lines_read, metadata, tokens, err, idx, format_token_stack, output>>

\* for line in iter { parse::line(&mut tokens, &line?)?; } of tokenize_reader,
\* on a reader whose lines are all read without an I/O error: the error of
\* the first line parse::line rejects, or the tokens of all the lines.
RECURSIVE reader_lines(_, _)
reader_lines(toks, iter) ==
    IF iter = <<>> THEN [error |-> NoError, tokens |-> toks]
    ELSE LET r == line(toks, Head(iter))
         IN  IF r.error # NoError
             THEN [error |-> r.error, tokens |-> <<>>]
             ELSE reader_lines(r.output, Tail(iter))

\* Stendhal::tokenize_reader on a reader over the text whose lines are
\* `reader`: three lines are taken with next! before frontmatter sees any.
tokenize_reader(reader) ==
    IF Len(reader) < 3
    THEN [error |-> <<"UnexpectedEndOfIter">>, metadata |-> <<>>, tokens |-> <<>>]
    ELSE LET chunk == SubSeq(reader, 1, 3)
             iter == SubSeq(reader, 4, Len(reader))
             header == frontmatter(chunk)
             body == reader_lines(<<>>, iter)
         IN  IF header.error # NoError
             THEN [error |-> header.error, metadata |-> <<>>, tokens |-> <<>>]
             ELSE IF body.error # NoError
             THEN [error |-> body.error, metadata |-> <<>>, tokens |-> <<>>]
             ELSE [error |-> NoError, metadata |-> header.metadata,
                   tokens |-> body.tokens]

----------------------------------------------------------------------------
(* writer.rs: Utf8Writer, a std::io::BufWriter over the sink.  The documents *)
(* of the model are shorter than the 8 KiB of the buffer, so write_str and   *)
(* write! only append to the buffer (`output`) and the sink is first called  *)
(* by flush, or by the drop of the writer when the function returns.         *)

\* The answer of the sink to its n-th call: the script, then "Ok" for ever
\* (a Vec<u8> is the empty script).  Another answer is the ErrorKind of the
\* std::io::Error the call returns.
SinkAnswer(script, n) == IF n <= Len(script) THEN script[n] ELSE "Ok"

\* BufWriter::flush_buf: write the buffered data to the sink; an Interrupted
\* write is tried again, another error is returned and the data stay buffered.
RECURSIVE flush_buf(_, _, _)
flush_buf(data, calls, script) ==
    IF data = ""
    THEN [calls |-> calls, error |-> NoError, data |-> data]
    ELSE LET r == SinkAnswer(script, Len(calls) + 1)
             called == Append(calls, [call |-> "write", data |-> data, result |-> r])
         IN  IF r = "Ok"
             THEN [calls |-> called, error |-> NoError, data |-> ""]
             ELSE IF r = "Interrupted"
             THEN flush_buf(data, called, script)
             ELSE [calls |-> called, error |-> <<"Io", r>>, data |-> data]

\* Utf8Writer::flush doing nothing.
flush_writer_skipped(data, calls, script) ==
    [calls |-> calls, error |-> NoError, data |-> data]

\* Utf8Writer::flush = BufWriter::flush: flush_buf, then the flush of the sink.
flush_writer(data, calls, script) ==
    LET b == flush_buf(data, calls, script)
    IN  IF b.error # NoError THEN b
        ELSE LET r == SinkAnswer(script, Len(b.calls) + 1)
             IN  [calls |-> Append(b.calls, [call |-> "flush", data |-> "", result |-> r]),
                  error |-> IF r = "Ok" THEN NoError ELSE <<"Io", r>>,
                  data |-> b.data]

\* Drop for BufWriter, when export_token_vector_to_writer returns: flush_buf
\* once more, its result ignored.
drop_writer(data, calls, script) == flush_buf(data, calls, script).calls

----------------------------------------------------------------------------
(* format/html/mod.rs: Html::export_token_vector_to_writer                   *)

\* start_document, the article opening, and the empty format stack
StartDocument ==
    /\ pc = "export"
    /\ output' = Append(start_document(<<>>, metadata), ArticleOpen)
    /\ format_token_stack' = <<>>
    /\ idx' = 0
    /\ pc' = "tokens"
    /\ UNCHANGED <<string, format_code, sink_script, sink_calls, input, lines_read, metadata, tokens, err>>

\* the loop body leaving the loop where it is: the token is not consumed
HandleToken_without_advance ==
    /\ pc = "tokens"
    /\ idx < Len(tokens)
    /\ UNCHANGED vars

\* one iteration of `for token in tokens.tokens_as_slice()`
HandleToken ==
    /\ pc = "tokens"
    /\ idx < Len(tokens)
    /\ LET r == handle_token(output, format_token_stack, tokens[idx + 1])
       IN  /\ output' = r.output
           /\ format_token_stack' = r.format_token_stack
           /\ err' = r.error
           /\ pc' = IF r.error # NoError THEN "error" ELSE "tokens"
           /\ sink_calls' = IF r.error # NoError
                             THEN drop_writer(Flatten(r.output), sink_calls, sink_script)
                             ELSE sink_calls
    /\ idx' = idx + 1
    /\ UNCHANGED <<string, format_code, sink_script, input, lines_read, metadata, tokens>>

\* after the loop: the closing tags of the document, then flush, then the
\* return, which drops the writer
EndDocument ==
    /\ pc = "tokens"
    /\ idx = Len(tokens)
    /\ output' = Append(output, ArticleClose)
    /\ LET f == flush_writer(Flatten(output'), sink_calls, sink_script)
       IN  /\ err' = f.error
           /\ pc' = IF f.error # NoError THEN "error" ELSE "done"
           /\ sink_calls' = drop_writer(f.data, f.calls, sink_script)
    /\ UNCHANGED <<string, format_code, sink_script, input, lines_read, metadata, tokens, idx, format_token_stack>>

----------------------------------------------------------------------------
(* The inputs *)

SeqsUpTo(S, n) == UNION {[1..k -> S] : k \in 0..n}

\* parse::line alone: every line over these characters, with or without "#- "
LineChars == {" ", Sentinel, "#", "-", "r", "l", "c"}
Lines == {p \o b : p \in {<<>>, PagePrefix}, b \in SeqsUpTo(LineChars, MaxLineLen)}

\* whole documents: a header, complete or not, and body lines
DocChars == {Sentinel, "l", "r"}
DocLines == SeqsUpTo(DocChars, MaxDocLineLen)
Headers ==
    {<<TitlePrefix \o <<"T">>, AuthorPrefix \o <<"A">>, PagesPrefix>>,
     <<TitlePrefix \o <<"T">>, AuthorPrefix \o <<"A">>>>,
     <<TitlePrefix \o <<"T">>, PagesPrefix>>,
     <<>>}
Docs == {h \o b : h \in Headers, b \in SeqsUpTo(DocLines, MaxLines)}

\* hand-built token lists, as in format/html/test.rs
ExportFormats ==
    {"Red", "Black", "Obfuscated", "Bold", "Strikethrough", "Underline",
     "Italic", "Reset"}
ExportTokens ==
    {TokenFormat(f) : f \in ExportFormats}
        \cup {Text(<<"a", "<">>), Space, LineBreak, ParagraphBreak, ThematicBreak}
TokenLists == SeqsUpTo(ExportTokens, MaxTokens)
MetadataLists == {<<>>, <<Title(<<"T">>), Author(<<"A">>)>>}

\* one Text token, over characters with and without an entity, under
\* metadata with and without such characters
TextChars == {"&", "a", "m", "p", ";", "<"}
Texts == SeqsUpTo(TextChars, MaxTextLen)
TextMetadataLists ==
    {<<>>, <<Title(<<"<", "T">>), Author(<<"\"", "&">>)>>,
     <<Author(<<"A">>), Title(<<"T">>)>>}

\* texts made of header lines, well formed or not, in any order and number
HeaderLines ==
    {TitlePrefix \o <<"T">>, TitlePrefix, <<"t", "i", "t", "l", "e", ":">>,
     AuthorPrefix \o <<"A">>, AuthorPrefix \o PagesPrefix,
     PagesPrefix, PagesPrefix \o <<" ", "x">>, <<>>, <<Sentinel>>}
HeaderDocs == SeqsUpTo(HeaderLines, MaxHeaderLines)

\* arguments of from_str: the sentinel, the 22 codes and characters that are
\* no code
CodeStringChars ==
    {Sentinel, "z", " ",
     "0", "1", "2", "3", "4", "5", "6", "7", "8", "9",
     "a", "b", "c", "d", "e", "f", "k", "l", "m", "n", "o", "r"}
CodeStrings == SeqsUpTo(CodeStringChars, MaxCodeStringLen)

\* sinks: what they answer to their first calls, "Ok" or the ErrorKind of
\* the error returned; short token lists to export to them
SinkAnswers == {"Ok", "BrokenPipe", "Interrupted"}
SinkScripts == SeqsUpTo(SinkAnswers, MaxSinkCalls)
SinkTokenLists ==
    SeqsUpTo({Text(<<"a">>), TokenFormat("Bold"), TokenFormat("Reset")}, 2)

\* documents run to their end: the empty text, and a good header followed
\* by body lines among an empty line, a page start, a line with two
\* escapes, a line with a reset and a line that is rejected
FairLines ==
    {<<>>, PagePrefix \o <<"l">>, <<Sentinel, "l", Sentinel, "c", "l">>,
     <<"l", " ", Sentinel, "r">>, <<Sentinel>>}
FairDocs ==
    {<<>>} \cup
    {<<TitlePrefix \o <<"T">>, AuthorPrefix \o <<"A">>, PagesPrefix>> \o b :
        b \in SeqsUpTo(FairLines, MaxFairLines)}

----------------------------------------------------------------------------
(* Specifications *)

\* Stendhal::tokenize_string on a document, then Html export of its result
Init ==
    /\ input \in Docs
    /\ lines_read = 0
    /\ metadata = <<>>
    /\ tokens = <<>>
    /\ err = NoError
    /\ pc = "frontmatter"
    /\ idx = 0
    /\ format_token_stack = <<>>
    /\ output = <<>>
    /\ sink_script = <<>>
    /\ sink_calls = <<>>
    /\ string = <<>>
    /\ format_code = NoFormatCode

Next ==
    \/ Frontmatter
    \/ ParseLine
    \/ TokenizeDone
    \/ StartDocument
    \/ HandleToken
    \/ EndDocument

Spec == Init /\ [][Next]_vars

\* The same run to its end: tokenize_string and the export are sequential
\* code, so a step that can be taken is taken.
InitFair ==
    /\ input \in FairDocs
    /\ lines_read = 0
    /\ metadata = <<>>
    /\ tokens = <<>>
    /\ err = NoError
    /\ pc = "frontmatter"
    /\ idx = 0
    /\ format_token_stack = <<>>
    /\ output = <<>>
    /\ sink_script = <<>>
    /\ sink_calls = <<>>
    /\ string = <<>>
    /\ format_code = NoFormatCode

SpecFair == InitFair /\ [][Next]_vars /\ WF_vars(Next)

\* tokenize_string on a document of one body line, from the state its
\* frontmatter "title: T", "author: A", "pages:" leaves: parse::line on an
\* empty vector, then Html export of the tokens
InitLine ==
    /\ \E l \in Lines : input = <<TitlePrefix \o <<"T">>, AuthorPrefix \o <<"A">>, PagesPrefix, l>>
    /\ lines_read = 3
    /\ metadata = <<Title(<<"T">>), Author(<<"A">>)>>
    /\ tokens = <<>>
    /\ err = NoError
    /\ pc = "lines"
    /\ idx = 0
    /\ format_token_stack = <<>>
    /\ output = <<>>
    /\ sink_script = <<>>
    /\ sink_calls = <<>>
    /\ string = <<>>
    /\ format_code = NoFormatCode

NextLine ==
    \/ ParseLine
    \/ TokenizeDone
    \/ StartDocument
    \/ HandleToken
    \/ EndDocument

SpecLine == InitLine /\ [][NextLine]_vars

\* Html export of a hand-built TokenList
InitExport ==
    /\ input = <<>>
    /\ lines_read = 0
    /\ metadata \in MetadataLists
    /\ tokens \in TokenLists
    /\ err = NoError
    /\ pc = "export"
    /\ idx = 0
    /\ format_token_stack = <<>>
    /\ output = <<>>
    /\ sink_script = <<>>
    /\ sink_calls = <<>>
    /\ string = <<>>
    /\ format_code = NoFormatCode

NextExport ==
    \/ StartDocument
    \/ HandleToken
    \/ EndDocument

SpecExport == InitExport /\ [][NextExport]_vars

\* Stendhal::tokenize_string on texts of header lines
InitFrontmatter ==
    /\ input \in HeaderDocs
    /\ lines_read = 0
    /\ metadata = <<>>
    /\ tokens = <<>>
    /\ err = NoError
    /\ pc = "frontmatter"
    /\ idx = 0
    /\ format_token_stack = <<>>
    /\ output = <<>>
    /\ sink_script = <<>>
    /\ sink_calls = <<>>
    /\ string = <<>>
    /\ format_code = NoFormatCode

NextFrontmatter ==
    \/ Frontmatter
    \/ ParseLine
    \/ TokenizeDone

SpecFrontmatter == InitFrontmatter /\ [][NextFrontmatter]_vars

\* FormatCode::from_str on a string, then FormatCode::from on its Format
InitFormatCode ==
    /\ input = <<>>
    /\ lines_read = 0
    /\ metadata = <<>>
    /\ tokens = <<>>
    /\ err = NoError
    /\ pc = "from_str"
    /\ idx = 0
    /\ format_token_stack = <<>>
    /\ output = <<>>
    /\ sink_script = <<>>
    /\ sink_calls = <<>>
    /\ string \in CodeStrings
    /\ format_code = NoFormatCode

NextFormatCode ==
    \/ FromStr
    \/ FromFormat

SpecFormatCode == InitFormatCode /\ [][NextFormatCode]_vars

\* Html export of a TokenList to a sink that may reject its calls
InitSink ==
    /\ input = <<>>
    /\ lines_read = 0
    /\ metadata \in MetadataLists
    /\ tokens \in SinkTokenLists
    /\ err = NoError
    /\ pc = "export"
    /\ idx = 0
    /\ format_token_stack = <<>>
    /\ output = <<>>
    /\ sink_script \in SinkScripts
    /\ sink_calls = <<>>
    /\ string = <<>>
    /\ format_code = NoFormatCode

SpecSink == InitSink /\ [][NextExport]_vars

\* Html export of a TokenList of one Text token
InitText ==
    /\ input = <<>>
    /\ lines_read = 0
    /\ metadata \in TextMetadataLists
    /\ \E s \in Texts : tokens = <<Text(s)>>
    /\ err = NoError
    /\ pc = "export"
    /\ idx = 0
    /\ format_token_stack = <<>>
    /\ output = <<>>
    /\ sink_script = <<>>
    /\ sink_calls = <<>>
    /\ string = <<>>
    /\ format_code = NoFormatCode

SpecText == InitText /\ [][NextExport]_vars

----------------------------------------------------------------------------
(* Properties *)

\* What the exporter has written inside <article>: the writes after the
\* article opening and before the closing of the document.
BodyChunks ==
    IF pc \in {"tokens", "done"}
    THEN SubSeq(output, Len(metadata) + 4,
                Len(output) - (IF pc = "done" THEN 1 ELSE 0))
    ELSE <<>>

StyleCloseTags == {"</span>", "</code>", "</b>", "</s>", "</u>", "</i>"}
StyleOpenTags ==
    {"<code>", "<b>", "<s>", "<u>", "<i>"}
        \cup {"<span style='color:" \o ColorDisplay(c) \o "'>" : c \in Color}
ClosingOf(open_tag) ==
    CASE open_tag = "<code>" -> "</code>"
      [] open_tag = "<b>" -> "</b>"
      [] open_tag = "<s>" -> "</s>"
      [] open_tag = "<u>" -> "</u>"
      [] open_tag = "<i>" -> "</i>"
      [] OTHER -> "</span>"

\* The elements left open by a sequence of writes, oldest first: an opening
\* tag opens one, a closing tag closes the last one opened if it is its
\* closing tag, and is kept as a misnested entry otherwise.
RECURSIVE OpenElementsFrom(_, _)
OpenElementsFrom(open, chunks) ==
    IF chunks = <<>> THEN open
    ELSE LET chunk == Head(chunks)
         IN  IF chunk \in StyleOpenTags
             THEN OpenElementsFrom(Append(open, chunk), Tail(chunks))
             ELSE IF chunk \in StyleCloseTags
             THEN IF open # <<>> /\ ClosingOf(open[Len(open)]) = chunk
                  THEN OpenElementsFrom(SubSeq(open, 1, Len(open) - 1), Tail(chunks))
                  ELSE OpenElementsFrom(Append(open, "misnested " \o chunk), Tail(chunks))
             ELSE OpenElementsFrom(open, Tail(chunks))

OpenElements(chunks) == OpenElementsFrom(<<>>, chunks)

Reverse(s) == [i \in 1..Len(s) |-> s[Len(s) + 1 - i]]

\* C1: rendering a token list that tokenize_string returned, the format stack
\* is empty right after each LineBreak or ParagraphBreak (the last token of a
\* line) has been handled, and after the last token of the document.
C1_StackEmptyAtLineEnds ==
    (pc \in {"tokens", "done"} /\ idx > 0)
        => /\ tokens[idx].type \in {"LineBreak", "ParagraphBreak"}
                => format_token_stack = <<>>
           /\ idx = Len(tokens) => format_token_stack = <<>>

\* C1 witness: the renderer stands after the LineBreak of a line that opened
\* a style, with a further line still to render.
C1_Witness ==
    /\ pc = "tokens"
    /\ idx > 2
    /\ idx < Len(tokens)
    /\ tokens[idx] = LineBreak
    /\ tokens[idx - 1] = TokenFormat("Reset")
    /\ tokens[idx - 2] = TokenFormat("Bold")
    /\ format_token_stack = <<>>

\* C2 (as claimed): when the document has been closed, every style element
\* that was opened has been closed before "</article></body></html>".
C2_OpenStylesClosedAtEnd ==
    pc = "done" =>
        /\ output[Len(output)] = ArticleClose
        /\ OpenElements(BodyChunks) = <<>>

\* C3: the format stack, bottom to top, is the sequence of the elements
\* opened and not yet closed in the output, and no closing tag was written
\* for an element other than the last one opened and still open.
C3_StackIsOpenElements ==
    pc \in {"tokens", "done"} =>
        OpenElements(BodyChunks)
            = [i \in 1..Len(format_token_stack) |-> open_html(format_token_stack[i])]

\* C3 witness: an element is open after an earlier one was opened and closed.
C3_Witness ==
    /\ pc = "tokens"
    /\ idx = 3
    /\ format_token_stack = <<"Red">>
    /\ BodyChunks = <<"<i>", "</i>", "<span style='color:#FF5555'>">>

TwoHexDigits(n) == HexDigit(n \div 16) \o HexDigit(n % 16)

\* C9 (as claimed): the opening tag written for a colour is
\* <span style='color:#RRGGBB'>, two hexadecimal digits per component.
C9_ColorSpanHasSixHexDigits ==
    (pc = "tokens" /\ idx > 0 /\ tokens[idx].type = "Format"
        /\ tokens[idx].format \in Color)
        => LET fg == ColorValueFg(tokens[idx].format)
           IN  output[Len(output)]
                   = "<span style='color:#" \o TwoHexDigits(fg[1])
                        \o TwoHexDigits(fg[2]) \o TwoHexDigits(fg[3]) \o "'>"

ClosingTagOfFormat(f) ==
    CASE f = "Obfuscated" -> "</code>"
      [] f = "Bold" -> "</b>"
      [] f = "Strikethrough" -> "</s>"
      [] f = "Underline" -> "</u>"
      [] f = "Italic" -> "</i>"
      [] OTHER -> "</span>"

\* C10: handling Format(Reset) with the stack f1..fn writes exactly the
\* closing tags of fn, ..., f1 in that order and leaves the stack empty
\* (nothing is written when the stack is empty).
C10_ResetClosesAllLastOpenedFirst ==
    [][(pc = "tokens" /\ idx < Len(tokens) /\ idx' = idx + 1
            /\ tokens[idx + 1] = TokenFormat("Reset"))
        => /\ output' = output \o [i \in 1..Len(format_token_stack) |->
                            ClosingTagOfFormat(Reverse(format_token_stack)[i])]
           /\ format_token_stack' = <<>>]_vars

\* C10 witness: a Reset has just closed a colour opened inside a bold element.
C10_Witness ==
    /\ pc = "tokens"
    /\ idx = 3
    /\ tokens = <<TokenFormat("Bold"), TokenFormat("Red"), TokenFormat("Reset")>>
    /\ format_token_stack = <<>>
    /\ BodyChunks = <<"<b>", "<span style='color:#FF5555'>", "</span>", "</b>">>

----------------------------------------------------------------------------
(* Properties of parse::line, on the one body line of SpecLine *)

BodyLine == input[4]
LineParsed == lines_read = 4
LineAccepted == lines_read = 4 /\ pc # "error"

FormatCodeChars ==
    {"0", "1", "2", "3", "4", "5", "6", "7", "8", "9",
     "a", "b", "c", "d", "e", "f", "k", "l", "m", "n", "o", "r"}

\* The error of the leftmost bad escape of a line, scanning left to right
\* with the character after a sentinel always taken as its code.
RECURSIVE LeftmostEscapeError(_)
LeftmostEscapeError(l) ==
    IF l = <<>> THEN NoError
    ELSE IF Head(l) # Sentinel THEN LeftmostEscapeError(Tail(l))
    ELSE IF Len(l) = 1 THEN <<"MissingFormatCode">>
    ELSE IF l[2] \notin FormatCodeChars THEN <<"NoSuchFormatCode", l[2]>>
    ELSE LeftmostEscapeError(SubSeq(l, 3, Len(l)))

\* C4: parse::line fails exactly when some sentinel ends the line
\* (MissingFormatCode) or is followed by a character outside the 22 codes
\* (NoSuchFormatCode with that character), with the error of the leftmost
\* one; the codes that resolve are the 22 and no other character.
C4_LineFailsOnLeftmostBadEscape ==
    LineParsed =>
        /\ err = LeftmostEscapeError(BodyLine)
        /\ (pc = "error") <=> (LeftmostEscapeError(BodyLine) # NoError)
        /\ \A c \in FormatCodeChars \cup LineChars \cup {"g", "R", "L", "x"} :
               FormatTryFromChar(c).ok <=> c \in FormatCodeChars

\* C4 witness: the code of the first escape is a space, and a sentinel ends
\* the line; the error names the space.
C4_Witness ==
    /\ LineParsed
    /\ BodyLine = <<"l", Sentinel, " ", Sentinel>>
    /\ pc = "error"
    /\ err = <<"NoSuchFormatCode", " ">>

\* The code characters of the escapes of a line, in order.
RECURSIVE EscapeCodes(_)
EscapeCodes(l) ==
    IF l = <<>> THEN <<>>
    ELSE IF Head(l) # Sentinel THEN EscapeCodes(Tail(l))
    ELSE IF Len(l) = 1 THEN <<>>
    ELSE <<l[2]>> \o EscapeCodes(SubSeq(l, 3, Len(l)))

IsFormatToken(t) == t.type = "Format"

\* C5: for an accepted non-empty line the tokens hold one Format token per
\* escape, and one more, a Reset right before the final LineBreak, exactly
\* when the line has an escape and its last escape is not the reset code.
C5_SyntheticResetIffTrailingStyle ==
    (LineAccepted /\ BodyLine # <<>>) =>
        LET codes == EscapeCodes(BodyLine)
            trailing == codes # <<>> /\ codes[Len(codes)] # "r"
            n == Len(tokens)
        IN  /\ Len(SelectSeq(tokens, IsFormatToken))
                   = Len(codes) + (IF trailing THEN 1 ELSE 0)
            /\ tokens[n] = LineBreak
            /\ trailing => tokens[n - 1] = TokenFormat("Reset")

\* C5 witness: a colour is opened and text and a space follow it.
C5_Witness ==
    /\ LineAccepted
    /\ BodyLine = <<Sentinel, "c", "l", " ">>
    /\ tokens = <<TokenFormat("Red"), Text(<<"l">>), Space,
                  TokenFormat("Reset"), LineBreak>>

\* C6: the empty line is accepted and gives exactly [ParagraphBreak]; no
\* non-empty line gives a ParagraphBreak; "#- " gives [ThematicBreak, LineBreak].
C6_ParagraphBreakOnlyForEmptyLine ==
    LineParsed =>
        /\ BodyLine = <<>> => (pc # "error" /\ tokens = <<ParagraphBreak>>)
        /\ BodyLine # <<>> => \A i \in 1..Len(tokens) : tokens[i] # ParagraphBreak
        /\ BodyLine = PagePrefix => tokens = <<ThematicBreak, LineBreak>>

\* C6 witness: the empty line has been tokenized.
C6_Witness ==
    /\ LineParsed
    /\ BodyLine = <<>>
    /\ tokens = <<ParagraphBreak>>

HasPagePrefix(l) == Len(l) >= 3 /\ l[1] = "#" /\ l[2] = "-" /\ l[3] = " "
AfterPagePrefix(l) == IF HasPagePrefix(l) THEN SubSeq(l, 4, Len(l)) ELSE l

\* C7: an accepted line gives a ThematicBreak exactly when it starts with
\* "#- "; it is then the first token and the only one, and a second "#- "
\* right after the first is tokenized as the text "#-" and a space.
C7_ThematicBreakIffPagePrefix ==
    LineAccepted =>
        /\ HasPagePrefix(BodyLine) <=> (\E i \in 1..Len(tokens) : tokens[i] = ThematicBreak)
        /\ \A i \in 1..Len(tokens) : tokens[i] = ThematicBreak => i = 1
        /\ (HasPagePrefix(BodyLine) /\ HasPagePrefix(AfterPagePrefix(BodyLine)))
               => (tokens[2] = Text(<<"#", "-">>) /\ tokens[3] = Space)

\* C7 witness: a line made of the page prefix twice.
C7_Witness ==
    /\ LineAccepted
    /\ BodyLine = PagePrefix \o PagePrefix
    /\ tokens = <<ThematicBreak, Text(<<"#", "-">>), Space, LineBreak>>

\* The lengths of the maximal runs of TRUE in a sequence of booleans.
RECURSIVE RunsFrom(_, _, _)
RunsFrom(flags, i, run) ==
    IF i > Len(flags) THEN (IF run > 0 THEN <<run>> ELSE <<>>)
    ELSE IF flags[i] THEN RunsFrom(flags, i + 1, run + 1)
    ELSE (IF run > 0 THEN <<run>> ELSE <<>>) \o RunsFrom(flags, i + 1, 0)

SpaceRunsOfLine(l) == RunsFrom([i \in 1..Len(l) |-> l[i] = " "], 1, 0)
SpaceRunsOfTokens(ts) == RunsFrom([i \in 1..Len(ts) |-> ts[i] = Space], 1, 0)
IsSpaceString(c) == c = " "
SpacesWritten == Len(SelectSeq(BodyChunks, IsSpaceString))

\* C8 (as claimed): every run of N spaces of an accepted line is a run of N
\* Space tokens, and the renderer writes one " " for each space of the line.
C8_EverySpaceRunKept ==
    LineAccepted =>
        /\ SpaceRunsOfTokens(tokens) = SpaceRunsOfLine(BodyLine)
        /\ pc = "done" => SpacesWritten = Len(SelectSeq(BodyLine, IsSpaceString))

\* C8 (amended): the same of the line without its leading "#- ", whose
\* space is removed with the prefix and is no Space token.
C8_EverySpaceRunAfterPrefixKept ==
    LineAccepted =>
        /\ SpaceRunsOfTokens(tokens) = SpaceRunsOfLine(AfterPagePrefix(BodyLine))
        /\ pc = "done" =>
               SpacesWritten = Len(SelectSeq(AfterPagePrefix(BodyLine), IsSpaceString))

\* C8 witness: a page line with a run of two spaces and a trailing space
\* has been rendered.
C8_Witness ==
    /\ pc = "done"
    /\ BodyLine = PagePrefix \o <<" ", " ", "l", " ">>
    /\ BodyChunks = <<"<hr />", " ", " ", "l", " ", "<br />">>

----------------------------------------------------------------------------
(* Properties of the exporter, continued *)

OpeningTagOfFormat(f) ==
    CASE f = "Obfuscated" -> "<code>"
      [] f = "Bold" -> "<b>"
      [] f = "Strikethrough" -> "<s>"
      [] f = "Underline" -> "<u>"
      [] f = "Italic" -> "<i>"
      [] OTHER -> "<span style='color:" \o ColorDisplay(f) \o "'>"

\* C11: handling Format(f), f other than Reset, pushes exactly f on top of
\* the stack (also when f is already on it), closes nothing, and writes
\* exactly the opening tag of f: a colour span, <code>, <b>, <s>, <u> or <i>.
C11_FormatPushesAndOpens ==
    [][(pc = "tokens" /\ idx < Len(tokens) /\ idx' = idx + 1
            /\ tokens[idx + 1].type = "Format"
            /\ tokens[idx + 1].format # "Reset")
        => /\ format_token_stack' = Append(format_token_stack, tokens[idx + 1].format)
           /\ output' = Append(output, OpeningTagOfFormat(tokens[idx + 1].format))
           /\ output'[Len(output')] \notin StyleCloseTags
           /\ err' = NoError]_vars

\* C11 witness: Bold was handled while Bold was already open, inside a colour.
C11_Witness ==
    /\ pc = "tokens"
    /\ idx = 3
    /\ format_token_stack = <<"Bold", "Red", "Bold">>
    /\ BodyChunks = <<"<b>", "<span style='color:#FF5555'>", "<b>">>

\* The encoding of one character: its named entity when the table has one.
EncodeChar(c) ==
    IF HtmlEntityName(c) # "" THEN "&" \o HtmlEntityName(c) \o ";" ELSE c

\* C12: Text(s) is rendered as the encodings of its characters, one after the
\* other in order; the rendering of s1 ++ s2 is that of s1 followed by that
\* of s2 for every split of s, and the text "&amp;" is rendered "&amp;amp;".
C12_TextIsPerCharacterEncoding ==
    (pc \in {"tokens", "done"} /\ idx = 1 /\ tokens[1].type = "Text")
        => LET s == tokens[1].text
           IN  /\ BodyChunks = [i \in 1..Len(s) |-> EncodeChar(s[i])]
               /\ \A k \in 0..Len(s) :
                      insert_string_as_html(<<>>, s)
                          = insert_string_as_html(<<>>, SubSeq(s, 1, k))
                                \o insert_string_as_html(<<>>, SubSeq(s, k + 1, Len(s)))
               /\ s = <<"&", "a", "m", "p", ";">>
                      => Flatten(BodyChunks) = "&amp;amp;"

\* C12 witness: the text "&amp;" has been rendered as "&amp;amp;".
C12_Witness ==
    /\ pc = "done"
    /\ tokens = <<Text(<<"&", "a", "m", "p", ";">>)>>
    /\ Flatten(BodyChunks) = "&amp;amp;"

EncodeString(s) == Flatten([i \in 1..Len(s) |-> EncodeChar(s[i])])

\* C13 (as claimed): in the document, the title, the author and the texts
\* appear with every character of the entity table written as its named
\* entity, never verbatim.
C13_InputCharactersOnlyAsEntities ==
    pc \in {"tokens", "done"} =>
        /\ \A i \in 1..Len(metadata) :
               output[i + 1]
                   = IF metadata[i].type = "Title"
                     THEN "<title>" \o EncodeString(metadata[i].text) \o "</title>"
                     ELSE "<meta name=\"author\" content=\""
                              \o EncodeString(metadata[i].text) \o "\" />"
        /\ \A i \in 1..Len(BodyChunks) : HtmlEntityName(BodyChunks[i]) = ""

\* C19: from the empty stack, whatever tokens are handled, Reset is never an
\* entry of the format stack, so close_formatting_tags cannot return
\* UnexpectedToken, and on a sink that accepts every write the renderer
\* returns no error.
C19_ResetNeverOnStack ==
    /\ \A i \in 1..Len(format_token_stack) : format_token_stack[i] # "Reset"
    /\ close_formatting_tags(output, format_token_stack).error = NoError
    /\ err = NoError
    /\ pc # "error"

\* C19 witness: a style was opened after a Reset closed an earlier one, and
\* the document was completed without error.
C19_Witness ==
    /\ pc = "done"
    /\ tokens = <<TokenFormat("Bold"), TokenFormat("Reset"), TokenFormat("Italic")>>
    /\ format_token_stack = <<"Italic">>
    /\ err = NoError

\* The calls of the sink that it rejected.
RejectedCalls == {i \in 1..Len(sink_calls) : sink_calls[i].result # "Ok"}

\* C20 (as claimed): when the sink has rejected a write or the flush, the
\* export returns the error of that call, never success, and the rejected
\* write is not made again.
C20_SinkErrorPropagatedNotRetried ==
    pc \in {"done", "error"} =>
        \A i \in RejectedCalls :
            /\ pc = "error"
            /\ err = <<"Io", sink_calls[i].result>>
            /\ \A j \in (i + 1)..Len(sink_calls) :
                   ~(sink_calls[j].call = sink_calls[i].call
                        /\ sink_calls[j].data = sink_calls[i].data)

----------------------------------------------------------------------------
(* Properties of parse::frontmatter, on the texts of SpecFrontmatter *)

HasPrefix(l, prefix) ==
    Len(l) >= Len(prefix) /\ SubSeq(l, 1, Len(prefix)) = prefix
AfterPrefix(l, prefix) == SubSeq(l, Len(prefix) + 1, Len(l))

\* C14: on a text starting "title: A", "author: B", "pages:", frontmatter
\* returns [Title(A), Author(B)] and has consumed exactly three lines: the
\* fourth line is the first one parse::line receives.
C14_FrontmatterReturnsTitleAuthor ==
    (/\ pc # "frontmatter"
     /\ Len(input) >= 3
     /\ HasPrefix(input[1], TitlePrefix)
     /\ HasPrefix(input[2], AuthorPrefix)
     /\ input[3] = PagesPrefix)
        => /\ lines_read >= 3
           /\ lines_read = 3 => (pc # "error" /\ tokens = <<>>)
           /\ pc \in {"lines", "export"}
                  => metadata = <<Title(AfterPrefix(input[1], TitlePrefix)),
                                  Author(AfterPrefix(input[2], AuthorPrefix))>>
           /\ (lines_read = 4 /\ pc = "lines") => tokens = line(<<>>, input[4]).output

\* C14 witness: the header gave Title(""), Author("pages:") and the fourth
\* line has been parsed as the first body line.
C14_Witness ==
    /\ pc = "lines"
    /\ lines_read = 4
    /\ input = <<TitlePrefix, AuthorPrefix \o PagesPrefix, PagesPrefix, PagesPrefix>>
    /\ metadata = <<Title(<<>>), Author(PagesPrefix)>>
    /\ tokens = <<Text(PagesPrefix), LineBreak>>

\* The first failure of the three header lines, read in order.
HeaderPrefixes == <<TitlePrefix, AuthorPrefix, PagesPrefix>>
HeaderLineError(i) ==
    IF Len(input) < i THEN <<"UnexpectedEndOfIter">>
    ELSE IF ~HasPrefix(input[i], HeaderPrefixes[i])
    THEN <<"IncompleteOrMissingFrontmatter">>
    ELSE NoError
FirstBadHeaderLine ==
    IF \E i \in 1..3 : HeaderLineError(i) # NoError
    THEN CHOOSE i \in 1..3 :
             /\ HeaderLineError(i) # NoError
             /\ \A j \in 1..(i - 1) : HeaderLineError(j) = NoError
    ELSE 0

\* C15: frontmatter fails exactly when one of the three header lines is
\* absent or lacks its prefix, with the error of the first such line
\* (UnexpectedEndOfIter for an absent line, IncompleteOrMissingFrontmatter
\* for a line without its prefix), and then returns no metadata.
C15_FrontmatterFirstFailure ==
    pc # "frontmatter" =>
        IF FirstBadHeaderLine = 0
        THEN lines_read >= 3 /\ (pc = "error" => lines_read > 3)
        ELSE /\ pc = "error"
             /\ err = HeaderLineError(FirstBadHeaderLine)
             /\ metadata = <<>>
             /\ tokens = <<>>
             /\ lines_read = IF Len(input) < FirstBadHeaderLine
                             THEN Len(input) ELSE FirstBadHeaderLine

\* C15 witness: the text ended after a good title and a good author line.
C15_Witness ==
    /\ pc = "error"
    /\ input = <<TitlePrefix \o <<"T">>, AuthorPrefix \o <<"A">>>>
    /\ err = <<"UnexpectedEndOfIter">>
    /\ metadata = <<>>

\* C16 (as claimed): after a good title and a good author line, a third line
\* other than exactly "pages:" makes frontmatter fail with
\* IncompleteOrMissingFrontmatter.
C16_ThirdLineMustEqualPages ==
    (/\ pc # "frontmatter"
     /\ Len(input) >= 3
     /\ HasPrefix(input[1], TitlePrefix)
     /\ HasPrefix(input[2], AuthorPrefix)
     /\ input[3] # PagesPrefix)
        => /\ pc = "error"
           /\ err = <<"IncompleteOrMissingFrontmatter">>
           /\ lines_read = 3

----------------------------------------------------------------------------
(* Properties of FormatCode, on the strings of SpecFormatCode *)

\* C17: the table is a bijection between the 22 codes and the 22 Formats:
\* the FormatCode of the Format a code resolves to is that code again, the
\* code of every Format resolves back to that Format, and neither two codes
\* share a Format nor two Formats a code.
C17_FormatCodeTableIsBijection ==
    pc = "from_format" =>
        /\ format_code = [code |-> string[2],
                          format |-> FormatCodeTryFrom(string[2]).format]
        /\ \A f \in Format :
               FormatCodeTryFrom(FormatCodeFromFormat(f).code) = [ok |-> TRUE, format |-> f]
        /\ \A c \in CodeStringChars :
               FormatCodeTryFrom(c).ok
                   => FormatCodeFromFormat(FormatCodeTryFrom(c).format).code = c
        /\ \A c1, c2 \in FormatCodeChars :
               FormatCodeTryFrom(c1).format = FormatCodeTryFrom(c2).format => c1 = c2
        /\ \A f1, f2 \in Format :
               FormatCodeFromFormat(f1).code = FormatCodeFromFormat(f2).code => f1 = f2
        /\ Cardinality({c \in CodeStringChars : FormatCodeTryFrom(c).ok}) = 22
        /\ Cardinality(Format) = 22

\* C17 witness: "§b" resolved to Aqua, and Aqua gave the code 'b' back.
C17_Witness ==
    /\ pc = "from_format"
    /\ string = <<Sentinel, "b">>
    /\ format_code = [code |-> "b", format |-> "Aqua"]

\* C18 (as claimed): from_str fails with InvalidFormatCodeString(string) on
\* a string that does not start with the sentinel, on a string of more than
\* two characters and on the sentinel alone, and succeeds only on the
\* sentinel followed by one code character.
C18_FromStrInvalidFormatCodeString ==
    pc # "from_str" =>
        /\ (string = <<>> \/ string[1] # Sentinel \/ Len(string) > 2 \/ Len(string) = 1)
               => (pc = "error" /\ err = <<"InvalidFormatCodeString", string>>)
        /\ pc # "error"
               => (Len(string) = 2 /\ string[1] = Sentinel /\ string[2] \in FormatCodeChars)

----------------------------------------------------------------------------
(* Properties of the whole export *)

\* What the sink has accepted: the data of its writes answered "Ok".
RECURSIVE AcceptedData(_)
AcceptedData(calls) ==
    IF calls = <<>> THEN ""
    ELSE (IF Head(calls).call = "write" /\ Head(calls).result = "Ok"
          THEN Head(calls).data ELSE "") \o AcceptedData(Tail(calls))

\* C21: when the export has returned success, the last call the sink
\* received is a flush, made after "</article></body></html>" was written,
\* no write follows it, and the sink has accepted the complete document.
C21_FlushedOnSuccess ==
    pc = "done" =>
        /\ output[Len(output)] = ArticleClose
        /\ sink_calls # <<>>
        /\ sink_calls[Len(sink_calls)].call = "flush"
        /\ sink_calls[Len(sink_calls)].result = "Ok"
        /\ \A i \in 1..(Len(sink_calls) - 1) : sink_calls[i].call = "write"
        /\ AcceptedData(sink_calls) = Flatten(output)

\* C21 witness: a document with tokens was flushed to the sink and the
\* export returned success.
C21_Witness ==
    /\ pc = "done"
    /\ tokens = <<TokenFormat("Bold"), Text(<<"a">>)>>
    /\ sink_script = <<>>
    /\ Len(sink_calls) = 2
    /\ sink_calls[1].result = "Ok"
    /\ sink_calls[2].call = "flush"

\* The writes of a sequence of tokens handled in order from a given stack.
RECURSIVE TokensOutput(_, _)
TokensOutput(ts, stack) ==
    IF ts = <<>> THEN <<>>
    ELSE LET r == handle_token(<<>>, stack, Head(ts))
         IN  r.output \o TokensOutput(Tail(ts), r.format_token_stack)

\* C22: the output is, in order, the head prefix, the metadata elements, the
\* viewport element with </head>, the article opening, the outputs of the
\* tokens handled so far in token order and, once the export has returned,
\* "</article></body></html>" with nothing after it.
C22_DocumentOrder ==
    pc \in {"tokens", "done"} =>
        output = <<DocumentHead>>
                    \o [i \in 1..Len(metadata) |-> metadata_html(metadata[i])]
                    \o <<ViewportAndHeadEnd, ArticleOpen>>
                    \o TokensOutput(SubSeq(tokens, 1, idx), <<>>)
                    \o (IF pc = "done" THEN <<ArticleClose>> ELSE <<>>)

\* C22 witness: the document of a TokenList with no metadata and no tokens.
C22_Witness ==
    /\ pc = "done"
    /\ tokens = <<>>
    /\ metadata = <<>>
    /\ output = <<DocumentHead, ViewportAndHeadEnd, ArticleOpen, ArticleClose>>

TitleElement(s) == "<title>" \o Flatten(s) \o "</title>"
AuthorElement(s) == "<meta name=\"author\" content=\"" \o Flatten(s) \o "\" />"
MetadataElement(data) ==
    IF data.type = "Title" THEN TitleElement(data.text) ELSE AuthorElement(data.text)
HeadChunks == SubSeq(output, 1, Len(metadata) + 2)

\* C23 (as claimed): when the metadata hold a Title and an Author, in
\* whatever order, the <title> element is written before the author element.
C23_TitleBeforeAuthor ==
    pc \in {"tokens", "done"} =>
        \A i, j \in 1..Len(metadata) :
            (metadata[i].type = "Title" /\ metadata[j].type = "Author")
                => \E a, b \in 1..Len(HeadChunks) :
                       /\ a < b
                       /\ HeadChunks[a] = TitleElement(metadata[i].text)
                       /\ HeadChunks[b] = AuthorElement(metadata[j].text)

\* C23 (amended): the head holds, between the charset element and the
\* viewport element, one element per metadata entry in the order of the
\* metadata list; the <title> element precedes the author element when the
\* Title precedes the Author in the list, as in the lists frontmatter returns.
C23_MetadataInListOrder ==
    pc \in {"tokens", "done"} =>
        /\ HeadChunks[1] = DocumentHead
        /\ HeadChunks[Len(HeadChunks)] = ViewportAndHeadEnd
        /\ \A i \in 1..Len(metadata) : HeadChunks[i + 1] = MetadataElement(metadata[i])

\* C23 witness: the list [Author, Title] was written author first.
C23_Witness ==
    /\ pc = "done"
    /\ metadata = <<Author(<<"A">>), Title(<<"T">>)>>
    /\ HeadChunks = <<DocumentHead, AuthorElement(<<"A">>), TitleElement(<<"T">>),
                      ViewportAndHeadEnd>>

\* What a token other than a Format token appends to the output.
PlainTokenOutput(token) ==
    CASE token.type = "Text" -> [i \in 1..Len(token.text) |-> EncodeChar(token.text[i])]
      [] token.type = "Space" -> <<" ">>
      [] token.type = "LineBreak" -> <<"<br />">>
      [] token.type = "ParagraphBreak" -> <<"<br />">>
      [] token.type = "ThematicBreak" -> <<"<hr />">>

\* C26: handling a token that is not a Format token leaves the format stack
\* as it is and only appends to the output: the encoded text, ' ',
\* "<br />", "<br />" or "<hr />"; a LineBreak closes no open style.
C26_PlainTokensLeaveStack ==
    [][(pc = "tokens" /\ idx < Len(tokens) /\ idx' = idx + 1
            /\ tokens[idx + 1].type # "Format")
        => /\ format_token_stack' = format_token_stack
           /\ output' = output \o PlainTokenOutput(tokens[idx + 1])
           /\ err' = NoError]_vars

\* C26 witness: a LineBreak was handled inside a bold element, which stays
\* open.
C26_Witness ==
    /\ pc = "tokens"
    /\ idx = 2
    /\ tokens[1] = TokenFormat("Bold")
    /\ tokens[2] = LineBreak
    /\ format_token_stack = <<"Bold">>
    /\ BodyChunks = <<"<b>", "<br />">>

----------------------------------------------------------------------------
(* Properties of Stendhal::tokenize_string, on the documents of Spec *)

\* The body lines that parse::line rejects.
BadBodyLines == {i \in 4..Len(input) : LeftmostEscapeError(input[i]) # NoError}
FirstBadBodyLine ==
    IF BadBodyLines = {} THEN 0
    ELSE CHOOSE i \in BadBodyLines : \A j \in BadBodyLines : i <= j

\* C24: tokenize_string returns the error of the first malformed construct
\* in input order (a header error before any body error, then the earliest
\* failing body line), reads no line after it and keeps no token or
\* metadata; it returns a TokenList only when nothing is malformed, and then
\* every line was read.
C24_FirstErrorAborts ==
    /\ pc = "error" =>
           /\ tokens = <<>>
           /\ metadata = <<>>
           /\ IF FirstBadHeaderLine # 0
              THEN /\ err = HeaderLineError(FirstBadHeaderLine)
                   /\ lines_read <= FirstBadHeaderLine
              ELSE /\ FirstBadBodyLine # 0
                   /\ err = LeftmostEscapeError(input[FirstBadBodyLine])
                   /\ lines_read = FirstBadBodyLine
    /\ pc \in {"export", "tokens", "done"} =>
           /\ FirstBadHeaderLine = 0
           /\ FirstBadBodyLine = 0
           /\ lines_read = Len(input)
           /\ err = NoError

\* C24 witness: two bad body lines after a good header; the error is the one
\* of the first and the second was not read.
C24_Witness ==
    /\ pc = "error"
    /\ Len(input) = 5
    /\ input[4] = <<Sentinel, Sentinel>>
    /\ input[5] = <<Sentinel>>
    /\ err = <<"NoSuchFormatCode", Sentinel>>
    /\ lines_read = 4

----------------------------------------------------------------------------
(* Termination, on the documents of SpecFair *)

\* Every iteration of the scanner from state s shortens what is left of the
\* line, until the line is exhausted or an error is returned.
RECURSIVE ScannerConsumes(_)
ScannerConsumes(s) ==
    \/ s.error # NoError
    \/ s.iter = <<>>
    \/ /\ Len(line_iteration(s).iter) < Len(s.iter)
       /\ ScannerConsumes(line_iteration(s))

ScannerStart(l) ==
    [output |-> <<>>, word_stack |-> <<>>, trailing_formatting |-> FALSE,
     iter |-> start_of_page(<<>>, l).line, error |-> NoError]

\* C25: tokenization and rendering terminate: the call ends in a return
\* (of the document or of an error); each iteration of the line scanner
\* consumes at least one character; the renderer handles the tokens one by
\* one, each once; and the pop loop of a Reset writes as many closing tags
\* as the stack has entries and leaves it empty.
C25_Terminates ==
    /\ <>(pc \in {"done", "error"})
    /\ [](pc = "lines" /\ Remaining # <<>> => ScannerConsumes(ScannerStart(Head(Remaining))))
    /\ [][idx' # idx => (idx' = idx + 1 /\ idx' <= Len(tokens))]_vars
    /\ [](pc = "tokens" =>
             LET r == close_formatting_tags(<<>>, format_token_stack)
             IN  Len(r.output) = Len(format_token_stack) /\ r.format_token_stack = <<>>)

\* C25 witness: the export of a document of two lines has returned, after
\* the Reset of the first line popped a stack of two entries.
C25_Witness ==
    /\ pc = "done"
    /\ Len(input) = 5
    /\ input[4] = <<Sentinel, "l", Sentinel, "c", "l">>
    /\ input[5] = <<"l", " ", Sentinel, "r">>
    /\ idx = Len(tokens)
    /\ idx = 9
    /\ format_token_stack = <<>>

----------------------------------------------------------------------------
(* Properties of parse::line, continued *)

\* The maximal runs of characters of a line other than ' ' and the sentinel,
\* the character after a sentinel being its code and part of no run.
RECURSIVE WordsFrom(_, _, _)
WordsFrom(l, word, words) ==
    LET flushed == IF word # <<>> THEN Append(words, word) ELSE words
    IN  IF l = <<>> THEN flushed
        ELSE IF Head(l) = " " THEN WordsFrom(Tail(l), <<>>, flushed)
        ELSE IF Head(l) = Sentinel THEN WordsFrom(SubSeq(l, 3, Len(l)), <<>>, flushed)
        ELSE WordsFrom(Tail(l), Append(word, Head(l)), words)
Words(l) == WordsFrom(l, <<>>, <<>>)

IsTextToken(t) == t.type = "Text"
TextsOfTokens(ts) ==
    LET texts == SelectSeq(ts, IsTextToken)
    IN  [i \in 1..Len(texts) |-> texts[i].text]

\* C27: in the tokens of an accepted line, the Text tokens are, in order,
\* the maximal runs of characters other than ' ' and the sentinel (escape
\* codes apart): none is empty, none holds a ' ' or a sentinel, and no two
\* are adjacent.
C27_TextTokensAreMaximalRuns ==
    LineAccepted =>
        /\ TextsOfTokens(tokens) = Words(AfterPagePrefix(BodyLine))
        /\ \A i \in 1..Len(tokens) :
               tokens[i].type = "Text" =>
                   /\ tokens[i].text # <<>>
                   /\ \A j \in 1..Len(tokens[i].text) :
                          tokens[i].text[j] \notin {" ", Sentinel}
                   /\ i < Len(tokens) => tokens[i + 1].type # "Text"

\* C27 witness: a line of two words around a space has been parsed.
C27_Witness ==
    /\ LineAccepted
    /\ BodyLine = <<"c", "l", " ", "r">>
    /\ tokens = <<Text(<<"c", "l">>), Space, Text(<<"r">>), LineBreak>>

----------------------------------------------------------------------------
(* Properties of Stendhal::tokenize_string, continued *)

IsBreakToken(t) == t.type \in {"LineBreak", "ParagraphBreak"}

\* The tokens cut after every LineBreak and ParagraphBreak; tokens after the
\* last break, if any, make a last group without a break.
RECURSIVE GroupsFrom(_, _, _)
GroupsFrom(ts, group, groups) ==
    IF ts = <<>> THEN (IF group # <<>> THEN Append(groups, group) ELSE groups)
    ELSE IF IsBreakToken(Head(ts))
    THEN GroupsFrom(Tail(ts), <<>>, Append(groups, Append(group, Head(ts))))
    ELSE GroupsFrom(Tail(ts), Append(group, Head(ts)), groups)
TokenGroups(ts) == GroupsFrom(ts, <<>>, <<>>)

\* C28: after k body lines are parsed the tokens are k groups in line
\* order, each what parse::line gives for its line alone: [ParagraphBreak]
\* for an empty line, and for a non-empty line a group ending with its only
\* LineBreak and holding no ParagraphBreak; so the LineBreak and
\* ParagraphBreak tokens together count k, which is the number of body
\* lines when the document is accepted.
C28_OneGroupPerBodyLine ==
    pc \in {"lines", "export", "tokens", "done"} =>
        LET k == lines_read - 3
            groups == TokenGroups(tokens)
        IN  /\ pc # "lines" => k = Len(input) - 3
            /\ Len(groups) = k
            /\ Len(SelectSeq(tokens, IsBreakToken)) = k
            /\ \A i \in 1..k :
                   /\ groups[i] = line(<<>>, input[3 + i]).output
                   /\ IF input[3 + i] = <<>>
                      THEN groups[i] = <<ParagraphBreak>>
                      ELSE /\ groups[i][Len(groups[i])] = LineBreak
                           /\ \A j \in 1..(Len(groups[i]) - 1) :
                                  ~IsBreakToken(groups[i][j])

\* C28 witness: an accepted document of an empty body line and a line of
\* text.
C28_Witness ==
    /\ pc = "done"
    /\ Len(input) = 5
    /\ input[4] = <<>>
    /\ input[5] = <<"l", "r">>
    /\ tokens = <<ParagraphBreak, Text(<<"l", "r">>), LineBreak>>

----------------------------------------------------------------------------
(* Properties of parse::line and From<Format> for FormatCode *)

\* A token written back in the Stendhal format.
WriteToken(t) ==
    CASE t.type = "ThematicBreak" -> PagePrefix
      [] t.type = "Text" -> t.text
      [] t.type = "Space" -> <<" ">>
      [] t.type = "Format" -> <<Sentinel, FormatCodeFromFormat(t.format).code>>
      [] OTHER -> <<>>

RECURSIVE WriteTokens(_)
WriteTokens(ts) ==
    IF ts = <<>> THEN <<>> ELSE WriteToken(Head(ts)) \o WriteTokens(Tail(ts))

\* C29: the tokens of an accepted non-empty line, without the final
\* LineBreak and without the Reset that parse::line adds when the last escape
\* of the line is not the reset code, written back in order (ThematicBreak
\* as "#- ", Text as its characters, Space as ' ', Format as the sentinel and
\* the code of the format) are the line, character for character.
C29_WriteBackIsTheLine ==
    (LineAccepted /\ BodyLine # <<>>) =>
        LET codes == EscapeCodes(BodyLine)
            added == codes # <<>> /\ codes[Len(codes)] # "r"
            kept == SubSeq(tokens, 1, Len(tokens) - (IF added THEN 2 ELSE 1))
        IN  /\ tokens[Len(tokens)] = LineBreak
            /\ added => tokens[Len(tokens) - 1] = TokenFormat("Reset")
            /\ WriteTokens(kept) = BodyLine

\* C29 witness: a page line of text around a colour escape, to which a
\* Reset was added.
C29_Witness ==
    /\ LineAccepted
    /\ BodyLine = PagePrefix \o <<"l", Sentinel, "c", "r">>
    /\ tokens = <<ThematicBreak, Text(<<"l">>), TokenFormat("Red"), Text(<<"r">>),
                  TokenFormat("Reset"), LineBreak>>

----------------------------------------------------------------------------
(* Stendhal::tokenize_string against Stendhal::tokenize_reader, on the      *)
(* documents of SpecFrontmatter                                             *)

\* C30 (as claimed): when tokenize_string has returned, tokenize_reader on a
\* reader over the same text gives the same outcome: the same error on a
\* failure, the same metadata and tokens on a success, for every text and
\* so for those of fewer than three lines.
C30_StringAndReaderAgree ==
    /\ pc = "error" => tokenize_reader(input).error = err
    /\ pc = "export" =>
           tokenize_reader(input)
               = [error |-> NoError, metadata |-> metadata, tokens |-> tokens]

====
